---- MODULE Spec2Model ----
(***************************************************************************)
(* A model of generate.py: the animation-configuration parser              *)
(* (Cursor.__parse_ani_cfg), the hotspot (Cursor.__parse_hotspot), the     *)
(* bitmap / icon / ANI encoders of CursorGenerator, and the two loops of   *)
(* main.                                                                   *)
(*                                                                         *)
(* Strings are modelled by their tokenisation.  A config string is the     *)
(* sequence of its ';'-separated items; an item is the number of '=' it    *)
(* holds, the text before the first '=' and the ','-separated tokens of    *)
(* the text after it.  A token is a decimal literal in range of the model  *)
(* ("int"), a decimal literal of value >= 2**32 ("big"), the empty string  *)
(* ("empty") or text int() rejects ("text").                               *)
(***************************************************************************)
EXTENDS Integers, Sequences, FiniteSets, TLC

VARIABLES
    cfg_str,     \* the ani_config text of the drawing (sequence of items)
    outcome,     \* "none" | "ok" | "CursorError" | "ValueError"
    error,       \* which __error call raised the CursorError
    ani_cfg,     \* the AniCfg returned by __parse_ani_cfg
    warnings,    \* the __warning calls made, in order
    size_attr,   \* <<width, height>> attributes of the svg root
    pos_attr,    \* <<x, y>> attributes of the hotspot rect
    hotspot,     \* the result of __parse_hotspot
    res,         \* the resolution handed to __gen_bitmap
    image,       \* the image handed to __gen_bitmap
    bitmap,      \* the result of __gen_bitmap
    resolutions, \* CursorGenerator.resolutions
    png_kind,    \* which pixels the exported PNG files hold
    has_static,  \* whether <res>/static.png files exist
    out,         \* the result of __gen_cur / __gen_ani: the bytes written
    svgs,        \* os.listdir("svgs"): the drawings main walks through
    file_idx,    \* the position of main's first loop in svgs
    coroutines,  \* main's list of generators, as indices into svgs
    main_pc,     \* "idle" | "load" | "batch" | "copy" | "done" | "crashed"
    idx,         \* i of main's batch loop
    max_concurrent_tasks,
    gather_coroutines, \* the batch awaited last
    results,     \* what asyncio.gather returned for it
    history      \* for each generator, the results of its invocations, in order

cfgVars == <<cfg_str, outcome, error, ani_cfg, warnings>>
hsVars == <<size_attr, pos_attr, hotspot>>
bmpVars == <<res, image, bitmap>>
genVars == <<resolutions, png_kind, has_static, out>>
batchVars == <<idx, max_concurrent_tasks, gather_coroutines, results, history>>
mainVars == <<svgs, file_idx, coroutines, main_pc, batchVars>>
vars == <<cfgVars, hsVars, bmpVars, genVars, mainVars>>

\* ------------------------------------------------------------- bounds --
MaxFrameCount == 2
MaxListLen == 3
MaxRes == 4
MaxSize == 3
MaxFiles == 3
MaxGenerators == 6
MaxBugs == 1

\* ---------------------------------------------------------- utilities --
Last(s) == s[Len(s)]
Front(s) == SubSeq(s, 1, Len(s) - 1)
Min(a, b) == IF a < b THEN a ELSE b
Max(a, b) == IF a > b THEN a ELSE b

RECURSIVE Repeat(_, _)
Repeat(x, n) == IF n <= 0 THEN <<>> ELSE <<x>> \o Repeat(x, n - 1)

\* ------------------------------------------------------------- tokens --
IntTok(n) == [kind |-> "int", val |-> n]
BigTok == [kind |-> "big", val |-> 0]
EmptyTok == [kind |-> "empty", val |-> 0]
TextTok == [kind |-> "text", val |-> 0]

Item(k, v) == [eq |-> 1, key |-> k, value |-> v]
NoEqItem(k) == [eq |-> 0, key |-> k, value |-> <<>>]
EmptyItem == NoEqItem("")

\* s.removesuffix(sep).split(sep) on the raw split of s: one trailing empty
\* piece is dropped, unless it is the only piece.
RemoveSuffixSplit(raw, empty) ==
    IF Len(raw) >= 2 /\ Last(raw) = empty THEN Front(raw) ELSE raw

\* Cursor.__parse_int: int(s), then the range check.  "empty" and "text" fail
\* in int(); a negative literal and a "big" one (>= 2**32) fail the check.
parse_int(tok) ==
    [ok |-> tok.kind = "int" /\ tok.val >= 0, val |-> tok.val]

\* __parse_int(str_value): a value holding a ',' is no integer literal.
ParseScalar(value) ==
    IF Len(value) # 1 THEN [ok |-> FALSE, val |-> 0] ELSE parse_int(value[1])

\* [__parse_int(n) for n in str_value.removesuffix(",").split(",")]
ParseList(value) ==
    LET toks == RemoveSuffixSplit(value, EmptyTok)
    IN  [ok |-> \A i \in 1..Len(toks) : parse_int(toks[i]).ok,
         val |-> [i \in 1..Len(toks) |-> toks[i].val]]

\* ------------------------------------------------- first loop: pairs --
\* str_cfg[key] = value on an insertion-ordered dict.
DictSet(d, k, v) ==
    IF \E i \in 1..Len(d) : d[i].key = k
    THEN [i \in 1..Len(d) |-> IF d[i].key = k THEN [key |-> k, value |-> v] ELSE d[i]]
    ELSE Append(d, [key |-> k, value |-> v])

RECURSIVE ParsePairs(_, _, _, _)
ParsePairs(items, k, str_cfg, warns) ==
    IF k > Len(items) THEN [crash |-> FALSE, str_cfg |-> str_cfg, warnings |-> warns]
    ELSE IF items[k].eq = 0
         THEN ParsePairs(items, k + 1, str_cfg, Append(warns, "missing_value"))
    ELSE IF items[k].eq # 1
         THEN [crash |-> TRUE, str_cfg |-> str_cfg, warnings |-> warns]
    ELSE ParsePairs(items, k + 1, DictSet(str_cfg, items[k].key, items[k].value), warns)

\* ------------------------------------------------ second loop: values --
Absent == [present |-> FALSE, val |-> 0]
AbsentList == [present |-> FALSE, val |-> <<>>]
Present(v) == [present |-> TRUE, val |-> v]

EmptyFinalCfg ==
    [frameCount |-> Absent, frameRate |-> Absent,
     frameList |-> AbsentList, rateList |-> AbsentList]

RECURSIVE ParseValues(_, _, _, _)
ParseValues(str_cfg, k, final_cfg, warns) ==
    IF k > Len(str_cfg) THEN [final_cfg |-> final_cfg, warnings |-> warns]
    ELSE LET opt_name == str_cfg[k].key
             str_value == str_cfg[k].value
         IN  IF opt_name \in {"frameCount", "frameRate"}
             THEN LET r == ParseScalar(str_value)
                  IN  IF r.ok
                      THEN ParseValues(str_cfg, k + 1,
                               [final_cfg EXCEPT ![opt_name] = Present(r.val)], warns)
                      ELSE ParseValues(str_cfg, k + 1, final_cfg,
                               Append(warns, "invalid_value"))
             ELSE IF opt_name \in {"frameList", "rateList"}
             THEN LET r == ParseList(str_value)
                  IN  IF r.ok
                      THEN ParseValues(str_cfg, k + 1,
                               [final_cfg EXCEPT ![opt_name] = Present(r.val)], warns)
                      ELSE ParseValues(str_cfg, k + 1, final_cfg,
                               Append(warns, "invalid_value"))
             ELSE ParseValues(str_cfg, k + 1, final_cfg, Append(warns, "unknown_option"))

\* --------------------------------------------------------- validation --
NoAniCfg ==
    [frame_count |-> 0, frame_rate |-> 0,
     frame_list |-> AbsentList, rate_list |-> AbsentList]

\* final_cfg.get("frameRate", 1)
GetFrameRate(final_cfg) ==
    IF final_cfg.frameRate.present THEN final_cfg.frameRate.val ELSE 1

\* if final_cfg.get("frameRate", 1) == 0: final_cfg["frameRate"] = 1
CoerceFrameRate(final_cfg) ==
    IF GetFrameRate(final_cfg) = 0
    THEN [final_cfg EXCEPT !.frameRate = Present(1)]
    ELSE final_cfg

\* expected_rate_len = final_cfg["frameCount"]
expected_rate_len(final_cfg) == final_cfg.frameCount.val

\* the loop replacing zero rates by 1
CoerceRatesNoop(rate_list) == rate_list

CoerceRates(rate_list) ==
    [i \in 1..Len(rate_list) |-> IF rate_list[i] = 0 THEN 1 ELSE rate_list[i]]

\* rate_list.extend(...) / rate_list[:expected_rate_len]
FitRatesNoTruncate(rate_list, n, pad) ==
    IF Len(rate_list) < n
    THEN rate_list \o Repeat(pad, n - Len(rate_list))
    ELSE rate_list

FitRates(rate_list, n, pad) ==
    IF Len(rate_list) < n
    THEN rate_list \o Repeat(pad, n - Len(rate_list))
    ELSE IF Len(rate_list) > n THEN SubSeq(rate_list, 1, n)
    ELSE rate_list

\* for frame in frame_list: if frame >= final_cfg["frameCount"]
FrameTooBigOff(final_cfg) == FALSE

FrameTooBig(final_cfg) ==
    /\ final_cfg.frameList.present
    /\ \E i \in 1..Len(final_cfg.frameList.val) :
           final_cfg.frameList.val[i] >= final_cfg.frameCount.val

Fatal(msg, warns) ==
    [outcome |-> "CursorError", error |-> msg, cfg |-> NoAniCfg, warnings |-> warns]

Validate(final_cfg0, warns0) ==
    IF ~final_cfg0.frameCount.present THEN Fatal("missing_frameCount", warns0)
    ELSE IF final_cfg0.frameCount.val = 0 THEN Fatal("zero_frameCount", warns0)
    ELSE IF FrameTooBig(final_cfg0) THEN Fatal("frame_too_big", warns0)
    ELSE
      LET warns1 == IF GetFrameRate(final_cfg0) = 0
                    THEN Append(warns0, "zero_frameRate") ELSE warns0
          final_cfg1 == CoerceFrameRate(final_cfg0)
          n == expected_rate_len(final_cfg1)
          raw == final_cfg1.rateList.val
          zero_rate == \E i \in 1..Len(raw) : raw[i] = 0
          coerced == CoerceRates(raw)
          warns2 == IF final_cfg1.rateList.present /\ zero_rate
                    THEN Append(warns1, "zero_rate") ELSE warns1
          warns3 == IF final_cfg1.rateList.present /\ Len(coerced) # n
                    THEN Append(warns2, "rate_len") ELSE warns2
          rate_list == IF final_cfg1.rateList.present
                       THEN Present(FitRates(coerced, n, GetFrameRate(final_cfg1)))
                       ELSE AbsentList
      IN  [outcome |-> "ok", error |-> "",
           cfg |-> [frame_count |-> final_cfg1.frameCount.val,
                    frame_rate |-> GetFrameRate(final_cfg1),
                    frame_list |-> final_cfg1.frameList,
                    rate_list |-> rate_list],
           warnings |-> warns3]

\* Cursor.__parse_ani_cfg
Items(cfg) == RemoveSuffixSplit(cfg, EmptyItem)

StrCfg(cfg) == ParsePairs(Items(cfg), 1, <<>>, <<>>)

FinalCfg(cfg) == ParseValues(StrCfg(cfg).str_cfg, 1, EmptyFinalCfg, StrCfg(cfg).warnings)

parse_ani_cfg(cfg) ==
    IF StrCfg(cfg).crash
    THEN [outcome |-> "ValueError", error |-> "", cfg |-> NoAniCfg,
          warnings |-> StrCfg(cfg).warnings]
    ELSE Validate(FinalCfg(cfg).final_cfg, FinalCfg(cfg).warnings)

\* ------------------------------------------------------ config inputs --
RECURSIVE SeqsUpTo(_, _)
SeqsUpTo(S, n) ==
    IF n = 0 THEN {<<>>}
    ELSE LET shorter == SeqsUpTo(S, n - 1)
         IN  shorter \cup {Append(s, x) : s \in {t \in shorter : Len(t) = n - 1}, x \in S}

NonEmptySeqs(S, n) == SeqsUpTo(S, n) \ {<<>>}

Toks(ints) == [i \in 1..Len(ints) |-> IntTok(ints[i])]

FrameCountItems ==
    {<<>>} \cup {<<Item("frameCount", <<IntTok(n)>>)>> : n \in 0..MaxFrameCount}
           \cup {<<Item("frameCount", <<TextTok>>)>>}

FrameRateItems ==
    {<<>>} \cup {<<Item("frameRate", <<IntTok(n)>>)>> : n \in {0, 2}}

FrameListItems ==
    {<<>>} \cup {<<Item("frameList", Toks(l))>> : l \in NonEmptySeqs({0, 1}, MaxListLen)}

RateListItems ==
    {<<>>} \cup {<<Item("rateList", Toks(l))>> : l \in NonEmptySeqs({0, 5}, MaxListLen)}

\* Entries the parser has to reject, skip or survive.
OddItems ==
    { <<EmptyItem>>,                                  \* trailing ';'
      <<NoEqItem("frameCount")>>,                     \* no '='
      <<Item("speed", <<IntTok(1)>>)>>,               \* unknown key
      <<[eq |-> 2, key |-> "frameRate", value |-> <<IntTok(1)>>]>>,  \* two '='
      <<Item("frameCount", <<IntTok(-1)>>)>>,         \* repeated key, negative
      <<Item("frameCount", <<IntTok(1), IntTok(2)>>)>>,   \* scalar with ','
      <<Item("frameRate", <<BigTok>>)>>,              \* >= 2**32
      <<Item("frameList", <<IntTok(0), EmptyTok>>)>>, \* trailing ','
      <<Item("frameList", <<IntTok(0), TextTok>>)>>,  \* not a number
      <<Item("rateList", <<EmptyTok>>)>> }            \* empty value

ShortLists(items) == {i \in items : i = <<>> \/ Len(i[1].value) = 1}

\* The raw ';'-split of a string is never empty: "" splits to [""].
RawSplit(s) == IF s = <<>> THEN <<EmptyItem>> ELSE s

PlainCfgInputs ==
    {RawSplit(a \o b \o c \o d) :
        a \in FrameCountItems, b \in FrameRateItems, c \in FrameListItems,
        d \in RateListItems}

OddCfgInputs ==
    {a \o b \o c \o d \o j :
        a \in FrameCountItems, b \in FrameRateItems, c \in ShortLists(FrameListItems),
        d \in ShortLists(RateListItems), j \in OddItems}

CfgInputs == PlainCfgInputs \cup OddCfgInputs

\* -------------------------------------------------------------- bytes --
\* x.to_bytes(n, "little")
u8(x) == <<x % 256>>
u16(x) == <<x % 256, (x \div 256) % 256>>
u32(x) == <<x % 256, (x \div 256) % 256, (x \div 65536) % 256, (x \div 16777216) % 256>>
i32(x) == u32(x)

\* "RIFF".encode("ascii") and the other chunk ids
RIFF == <<82, 73, 70, 70>>
ACON == <<65, 67, 79, 78>>
anih == <<97, 110, 105, 104>>
rate == <<114, 97, 116, 101>>
seq == <<115, 101, 113, 32>>
LIST == <<76, 73, 83, 84>>
fram == <<102, 114, 97, 109>>
icon == <<105, 99, 111, 110>>

RECURSIVE Concat(_)
Concat(ss) == IF ss = <<>> THEN <<>> ELSE ss[1] \o Concat(Tail(ss))

RECURSIVE SumLen(_)
SumLen(ss) == IF ss = <<>> THEN 0 ELSE Len(ss[1]) + SumLen(Tail(ss))

\* ------------------------------------------------------------ hotspot --
\* An attribute is None, text int() rejects, or an integer literal.
NoneAttr == [kind |-> "none", val |-> 0]
TextAttr == [kind |-> "text", val |-> 0]
IntAttr(n) == [kind |-> "int", val |-> n]

NoHotspot == [outcome |-> "none", x |-> [num |-> 0, den |-> 1], y |-> [num |-> 0, den |-> 1]]

\* int(x_attr), 0 when the attribute is missing or not an integer
Coord(attr) == IF attr.kind = "int" THEN attr.val ELSE 0

\* min(max(x / width, 0), 1) as the exact fraction num/den, den > 0
ClampUnit(x, width) ==
    LET n == IF width > 0 THEN x ELSE 0 - x
        d == IF width > 0 THEN width ELSE 0 - width
    IN  [num |-> Min(Max(n, 0), d), den |-> d]

\* Cursor.__parse_hotspot
parse_hotspot(width_attr, height_attr, x_attr, y_attr) ==
    IF width_attr.kind # "int" \/ height_attr.kind # "int"
    THEN [NoHotspot EXCEPT !.outcome = "CursorError"]
    ELSE IF width_attr.val = 0 \/ height_attr.val = 0
    THEN [NoHotspot EXCEPT !.outcome = "ZeroDivisionError"]
    ELSE [outcome |-> "ok",
          x |-> ClampUnit(Coord(x_attr), width_attr.val),
          y |-> ClampUnit(Coord(y_attr), height_attr.val)]

\* ------------------------------------------------------------- images --
\* An image of side r is the function from y * r + x to the (r, g, b, a) pixel.
Opaque == <<1, 2, 3, 255>>
Half == <<4, 5, 6, 128>>
Clear == <<7, 8, 9, 0>>

Uniform(r, px) == [k \in 0..(r * r - 1) |-> px]
Spot(r, bg, at, px) == [k \in 0..(r * r - 1) |-> IF k = at THEN px ELSE bg]

Images(r) ==
    {Uniform(r, px) : px \in {Opaque, Half, Clear}}
      \cup {Spot(r, Opaque, at, Clear) : at \in 0..(r * r - 1)}
      \cup {Spot(r, Clear, at, Opaque) : at \in 0..(r * r - 1)}

\* image.getpixel((x, y))
getpixel(img, r, x, y) == img[y * r + x]

\* ------------------------------------------------------------- bitmap --
\* int(byte, 2) of a string of binary digits (the empty string is rejected
\* by the caller's guard)
RECURSIVE BinValue(_)
BinValue(bits) ==
    IF bits = <<>> THEN 0 ELSE 2 * BinValue(Front(bits)) + Last(bits)

\* mask[a:b] with Python's clamping of slice bounds
Slice(s, a, b) == SubSeq(s, Min(a, Len(s)) + 1, Min(b, Len(s)))

\* and_mask_size of __gen_bitmap
AndMaskSizeOdd(r) ==
    IF (r * r) % 8 = 0 THEN (r * r) \div 8 ELSE (r * r) \div 8 + 1

AndMaskSize(r) == AndMaskSizeOdd(r) + (AndMaskSizeOdd(r) % 2)

\* The pixel visited k-th by "for y in range(res - 1, -1, -1): for x in range(res)"
ScanPixel(img, r, k) == getpixel(img, r, k % r, (r - 1) - (k \div r))

\* the four bytes appended for one pixel
PixelBytes(px) ==
    IF px[4] = 0 THEN <<0, 0, 0, px[4]>> ELSE <<px[3], px[2], px[1], px[4]>>

\* the string of mask digits, with  mask += "0" * (len(mask) - and_mask_size * 8)
MaskBits(img, r) ==
    LET mask == [k \in 1..(r * r) |-> IF ScanPixel(img, r, k - 1)[4] = 0 THEN 1 ELSE 0]
    IN  mask \o Repeat(0, Len(mask) - AndMaskSize(r) * 8)

\* CursorGenerator.__gen_bitmap: ok is FALSE when int("", 2) raises ValueError
BitmapHeader(r) ==
    u32(40) \o i32(r) \o i32(r * 2) \o u16(1) \o u16(32) \o u32(0)
      \o u32(r * r * 4 + AndMaskSize(r)) \o u32(0) \o u32(0) \o u32(0) \o u32(0)

gen_bitmap(img, r) ==
    LET mask == MaskBits(img, r)
        colors == Concat([k \in 1..(r * r) |-> PixelBytes(ScanPixel(img, r, k - 1))])
        byte(b) == Slice(mask, b * 8, (b + 1) * 8)
    IN  IF \E b \in 0..(AndMaskSize(r) - 1) : byte(b) = <<>>
        THEN [ok |-> FALSE, data |-> <<>>]
        ELSE [ok |-> TRUE,
              data |-> BitmapHeader(r) \o colors
                         \o Concat([b \in 1..AndMaskSize(r) |-> u8(BinValue(byte(b - 1)))])]

\* ---------------------------------------------------------- ICO / CUR --
\* int(res * self.src.hotspot.x): the fraction is within [0, 1]
HotspotPixel(r, frac) == (r * frac.num) \div frac.den

ENTRY_SIZE == 16

\* CursorGenerator.__gen_ico_bytes
gen_ico_bytes(images, ress, hs) ==
    LET n == Len(ress)
        blobs == [i \in 1..n |-> gen_bitmap(images[i], ress[i])]
        image_bytes == [i \in 1..n |-> blobs[i].data]
        icondir == u16(0) \o u16(2) \o u16(n)
        min_offset == Len(icondir) + ENTRY_SIZE * n
        entry(i) ==
            u8(ress[i]) \o u8(ress[i]) \o u8(0) \o u8(0)
              \o u16(HotspotPixel(ress[i], hs.x)) \o u16(HotspotPixel(ress[i], hs.y))
              \o u32(Len(image_bytes[i]))
              \o u32(min_offset + SumLen(SubSeq(image_bytes, 1, i - 1)))
    IN  IF \E i \in 1..n : ~blobs[i].ok
        THEN [ok |-> FALSE, data |-> <<>>]
        ELSE [ok |-> TRUE,
              data |-> icondir \o Concat([i \in 1..n |-> entry(i)]) \o Concat(image_bytes)]

\* ---------------------------------------------------------- PNG files --
\* The files Inkscape exported: <res>/<i>.png (or <res>.png, read as frame 0)
\* and <res>/static.png.  Frames differ in the one pixel that stands out.
PngFrame(kind, i, r) ==
    IF kind = "opaque"
    THEN Spot(r, Opaque, i % (r * r), Clear)
    ELSE Spot(r, Clear, i % (r * r), Opaque)

PngStatic(r) == Uniform(r, Half)

\* composite.paste(static_image); composite.paste(frame_image, mask=frame_image)
\* for frames whose alpha is 0 or 255 everywhere
Composite(static_image, frame_image) ==
    [k \in DOMAIN frame_image |->
        IF frame_image[k][4] = 0 THEN static_image[k] ELSE frame_image[k]]

FrameImage(kind, static, i, r) ==
    IF static THEN Composite(PngStatic(r), PngFrame(kind, i, r)) ELSE PngFrame(kind, i, r)

\* ---------------------------------------------------------------- ANI --
\* steps
AniSteps(cfg) ==
    IF ~cfg.frame_list.present THEN cfg.frame_count ELSE Len(cfg.frame_list.val)

\* flags
AniFlagsFrameListOnly(cfg) == IF cfg.frame_list.present THEN 3 ELSE 1

AniFlags(cfg) ==
    IF cfg.frame_list.present \/ cfg.rate_list.present THEN 3 ELSE 1

AnihBlock(cfg) ==
    anih \o u32(36) \o u32(36) \o u32(cfg.frame_count) \o u32(AniSteps(cfg))
      \o u32(0) \o u32(0) \o u32(0) \o u32(0) \o u32(cfg.frame_rate) \o u32(AniFlags(cfg))

U32s(vals) == Concat([i \in 1..Len(vals) |-> u32(vals[i])])

\* rate_block: the else branch of the 'seq ' part appends to it as well
RateBlock(cfg) ==
    IF AniFlags(cfg) = 1 THEN <<>>
    ELSE rate \o u32(cfg.frame_count * 4)
           \o (IF cfg.rate_list.present
               THEN U32s(cfg.rate_list.val)
               ELSE U32s(Repeat(cfg.frame_rate, cfg.frame_count)))
           \o (IF cfg.frame_list.present
               THEN <<>>
               ELSE U32s([i \in 1..AniSteps(cfg) |-> i - 1]))

SeqBlock(cfg) ==
    IF AniFlags(cfg) = 1 THEN <<>>
    ELSE seq \o u32(AniSteps(cfg) * 4)
           \o (IF cfg.frame_list.present THEN U32s(cfg.frame_list.val) ELSE <<>>)

\* frame_block
FrameBlock(image_bytes) == icon \o u32(Len(image_bytes)) \o image_bytes

\* frame_list
FrameListBlock(frames) == LIST \o u32(4 + SumLen(frames)) \o fram \o Concat(frames)

\* riff_block_size
RiffBlockSizeNoRate(anih_block, seq_block, rate_block, frame_list) ==
    4 + Len(anih_block) + Len(seq_block) + Len(frame_list)

RiffBlockSize(anih_block, seq_block, rate_block, frame_list) ==
    4 + Len(anih_block) + Len(seq_block) + Len(rate_block) + Len(frame_list)

\* CursorGenerator.__gen_ani
gen_ani(cfg, ress, hs, kind, static) ==
    LET icos == [i \in 1..cfg.frame_count |->
                    gen_ico_bytes([j \in 1..Len(ress) |-> FrameImage(kind, static, i - 1, ress[j])],
                                  ress, hs)]
        frames == [i \in 1..cfg.frame_count |-> FrameBlock(icos[i].data)]
        frame_list == FrameListBlock(frames)
        size == RiffBlockSize(AnihBlock(cfg), SeqBlock(cfg), RateBlock(cfg), frame_list)
    IN  IF \E i \in 1..cfg.frame_count : ~icos[i].ok
        THEN [ok |-> FALSE, data |-> <<>>]
        ELSE [ok |-> TRUE,
              data |-> RIFF \o u32(size) \o ACON \o AnihBlock(cfg) \o RateBlock(cfg)
                         \o SeqBlock(cfg) \o frame_list]

\* CursorGenerator.__gen_cur
gen_cur(ress, hs, kind) ==
    gen_ico_bytes([j \in 1..Len(ress) |-> PngFrame(kind, 0, ress[j])], ress, hs)

\* ------------------------------------------------ the parser, as a step --
NoCfgStr == <<>>   \* the drawing has no ani_config text
NoImage == <<>>
NoBytes == [done |-> FALSE, ok |-> FALSE, data |-> <<>>]
Bytes(r) == [done |-> TRUE, ok |-> r.ok, data |-> r.data]

IdleCfg ==
    /\ cfg_str = NoCfgStr
    /\ outcome = "none"
    /\ error = ""
    /\ ani_cfg = NoAniCfg
    /\ warnings = <<>>

IdleHotspot ==
    /\ size_attr = <<NoneAttr, NoneAttr>>
    /\ pos_attr = <<NoneAttr, NoneAttr>>
    /\ hotspot = NoHotspot

IdleBitmap ==
    /\ res = 0
    /\ image = NoImage
    /\ bitmap = NoBytes

IdleBatch ==
    /\ idx = 0
    /\ max_concurrent_tasks = 0
    /\ gather_coroutines = <<>>
    /\ results = <<>>
    /\ history = <<>>

IdleMain ==
    /\ svgs = <<>>
    /\ file_idx = 0
    /\ coroutines = <<>>
    /\ main_pc = "idle"
    /\ IdleBatch

IdleGen ==
    /\ resolutions = <<>>
    /\ png_kind = "opaque"
    /\ has_static = FALSE
    /\ out = NoBytes

InitCfg ==
    /\ cfg_str \in CfgInputs
    /\ outcome = "none"
    /\ error = ""
    /\ ani_cfg = NoAniCfg
    /\ warnings = <<>>
    /\ IdleHotspot /\ IdleBitmap /\ IdleGen /\ IdleMain

ParseAniCfg ==
    /\ outcome = "none"
    /\ LET r == parse_ani_cfg(cfg_str)
       IN  /\ outcome' = r.outcome
           /\ error' = r.error
           /\ ani_cfg' = r.cfg
           /\ warnings' = r.warnings
    /\ UNCHANGED <<cfg_str, hsVars, bmpVars, genVars, mainVars>>

NextCfg == ParseAniCfg

SpecCfg == InitCfg /\ [][NextCfg]_vars

\* ------------------------------------------------ the bitmap, as a step --
InitBitmap ==
    /\ res \in 1..MaxRes
    /\ image \in Images(res)
    /\ bitmap = NoBytes
    /\ IdleCfg /\ IdleHotspot /\ IdleGen /\ IdleMain

GenBitmap ==
    /\ ~bitmap.done
    /\ bitmap' = Bytes(gen_bitmap(image, res))
    /\ UNCHANGED <<res, image, cfgVars, hsVars, genVars, mainVars>>

NextBitmap == GenBitmap

SpecBitmap == InitBitmap /\ [][NextBitmap]_vars

\* ------------------------------------------- one drawing, start to file --
\* CursorGenerator takes the resolutions as a parameter; sides the model can
\* hold byte for byte stand for main's (32, 48, 64).
ResolutionLists == {<<3>>, <<2>>, <<4, 3>>}

SizeAttrs == {NoneAttr} \cup {IntAttr(n) : n \in 1..MaxSize}
PosAttrs == {NoneAttr} \cup {IntAttr(n) : n \in 0..MaxSize}

\* rateList values of every length: all 5, and 0 followed by 5s
AniRateListItems ==
    {<<>>} \cup {<<Item("rateList", Toks(Repeat(5, n)))>> : n \in 1..MaxListLen}
           \cup {<<Item("rateList", Toks(<<0>> \o Repeat(5, n - 1)))>> : n \in 1..MaxListLen}

AniCfgInputs ==
    {RawSplit(a \o b \o c \o d) :
        a \in {<<Item("frameCount", <<IntTok(n)>>)>> : n \in 1..MaxFrameCount},
        b \in {<<>>, <<Item("frameRate", <<IntTok(2)>>)>>},
        c \in FrameListItems, d \in AniRateListItems}

InitStatic ==
    /\ cfg_str = NoCfgStr
    /\ size_attr \in SizeAttrs \X SizeAttrs
    /\ pos_attr \in PosAttrs \X PosAttrs
    /\ resolutions \in ResolutionLists
    /\ png_kind \in {"opaque", "clear"}
    /\ has_static = FALSE

InitAnimated ==
    /\ cfg_str \in AniCfgInputs
    /\ size_attr = <<IntAttr(2), IntAttr(2)>>
    /\ pos_attr = <<IntAttr(1), IntAttr(2)>>
    /\ \E p \in {<<<<3>>, FALSE>>, <<<<4, 3>>, TRUE>>} :
           resolutions = p[1] /\ has_static = p[2]
    /\ png_kind = "clear"

Init ==
    /\ InitStatic \/ InitAnimated
    /\ outcome = "none"
    /\ error = ""
    /\ ani_cfg = NoAniCfg
    /\ warnings = <<>>
    /\ hotspot = NoHotspot
    /\ out = NoBytes
    /\ IdleBitmap /\ IdleMain

\* Cursor.__get_info: the hotspot first, then the configuration, if any.
\* An exception of either ends the constructor; a static drawing has no AniCfg.
get_info(size, pos, cfg) ==
    LET h == parse_hotspot(size[1], size[2], pos[1], pos[2])
        r == parse_ani_cfg(cfg)
    IN  IF h.outcome # "ok"
        THEN [outcome |-> h.outcome, error |-> "", hotspot |-> h,
              cfg |-> NoAniCfg, warnings |-> <<>>]
        ELSE IF cfg = NoCfgStr
        THEN [outcome |-> "ok", error |-> "", hotspot |-> h,
              cfg |-> NoAniCfg, warnings |-> <<>>]
        ELSE [outcome |-> r.outcome, error |-> r.error, hotspot |-> h,
              cfg |-> r.cfg, warnings |-> r.warnings]

GetInfo ==
    /\ outcome = "none"
    /\ LET r == get_info(size_attr, pos_attr, cfg_str)
       IN  /\ hotspot' = r.hotspot
           /\ outcome' = r.outcome
           /\ error' = r.error
           /\ ani_cfg' = r.cfg
           /\ warnings' = r.warnings
    /\ UNCHANGED <<cfg_str, size_attr, pos_attr, bmpVars, genVars, mainVars>>

is_ani == cfg_str # NoCfgStr

GenCur ==
    /\ outcome = "ok" /\ ~is_ani /\ ~out.done
    /\ out' = Bytes(gen_cur(resolutions, hotspot, png_kind))
    /\ UNCHANGED <<cfgVars, hsVars, bmpVars, resolutions, png_kind, has_static, mainVars>>

GenAni ==
    /\ outcome = "ok" /\ is_ani /\ ~out.done
    /\ out' = Bytes(gen_ani(ani_cfg, resolutions, hotspot, png_kind, has_static))
    /\ UNCHANGED <<cfgVars, hsVars, bmpVars, resolutions, png_kind, has_static, mainVars>>

Next == GetInfo \/ GenCur \/ GenAni

Spec == Init /\ [][Next]_vars

\* ------------------------------------------------- main: the first loop --
\* A file of the svgs directory: whether it is an .svg file, and what
\* __get_info reads from it.
Drawing(svg, size, pos, cfg) == [svg |-> svg, size |-> size, pos |-> pos, cfg |-> cfg]

Drawings ==
    { Drawing(TRUE, <<IntAttr(2), IntAttr(2)>>, <<IntAttr(1), IntAttr(1)>>, NoCfgStr),
      Drawing(TRUE, <<IntAttr(2), IntAttr(2)>>, <<NoneAttr, NoneAttr>>,
              <<Item("frameCount", <<IntTok(2)>>)>>),
      Drawing(TRUE, <<IntAttr(2), IntAttr(2)>>, <<IntAttr(1), IntAttr(1)>>,
              <<Item("frameCount", <<IntTok(0)>>)>>),
      Drawing(TRUE, <<IntAttr(2), IntAttr(2)>>, <<IntAttr(1), IntAttr(1)>>,
              <<Item("frameCount", <<IntTok(2)>>),
                [eq |-> 2, key |-> "frameRate", value |-> <<IntTok(1)>>]>>),
      Drawing(TRUE, <<NoneAttr, IntAttr(2)>>, <<IntAttr(1), IntAttr(1)>>, NoCfgStr),
      Drawing(FALSE, <<NoneAttr, NoneAttr>>, <<NoneAttr, NoneAttr>>, NoCfgStr) }

\* max_concurrent_tasks before the first batch
MaxConcurrentTasks == 5

\* Cursor(path): "CursorError" for a file that is no .svg, else __get_info
NewCursor(d) ==
    IF ~d.svg THEN "CursorError" ELSE get_info(d.size, d.pos, d.cfg).outcome

InitLoad ==
    /\ svgs \in NonEmptySeqs(Drawings, MaxFiles)
    /\ file_idx = 1
    /\ coroutines = <<>>
    /\ main_pc = "load"
    /\ IdleBatch
    /\ IdleCfg /\ IdleHotspot /\ IdleBitmap /\ IdleGen

\* one turn of "for file in os.listdir(...)": except CursorError: continue
LoadDrawing ==
    /\ main_pc = "load" /\ file_idx <= Len(svgs)
    /\ LET r == NewCursor(svgs[file_idx])
       IN  IF r = "ok"
           THEN /\ coroutines' = Append(coroutines, file_idx)
                /\ file_idx' = file_idx + 1
                /\ UNCHANGED main_pc
           ELSE IF r = "CursorError"
           THEN /\ file_idx' = file_idx + 1
                /\ UNCHANGED <<coroutines, main_pc>>
           ELSE /\ main_pc' = "crashed"
                /\ UNCHANGED <<coroutines, file_idx>>
    /\ UNCHANGED <<svgs, batchVars, cfgVars, hsVars, bmpVars, genVars>>

LoadDone ==
    /\ main_pc = "load" /\ file_idx > Len(svgs)
    /\ main_pc' = "batch"
    /\ max_concurrent_tasks' = MaxConcurrentTasks
    /\ idx' = 0
    /\ history' = [g \in 1..Len(svgs) |-> <<>>]
    /\ UNCHANGED <<svgs, file_idx, coroutines, gather_coroutines, results,
                   cfgVars, hsVars, bmpVars, genVars>>

NextLoad == LoadDrawing \/ LoadDone

SpecLoad == InitLoad /\ [][NextLoad]_vars

\* ------------------------------------------------- main: the batch loop --
\* CursorGenerator.Result
SUCCESS == "SUCCESS"
FAILED == "FAILED"
INKSCAPE_BUG == "INKSCAPE_BUG"
Result == {SUCCESS, FAILED, INKSCAPE_BUG}

Count(s, x) == Cardinality({k \in DOMAIN s : s[k] = x})

\* sum(list(map(lambda x: x == CursorGenerator.Result.SUCCESS, results)))
success_count(rs) == Count(rs, SUCCESS)

\* [c for c, r in zip(gather_coroutines, results) if r == INKSCAPE_BUG]
RECURSIVE Rerun(_, _)
Rerun(batch, rs) ==
    IF batch = <<>> THEN <<>>
    ELSE (IF Head(rs) = INKSCAPE_BUG THEN <<Head(batch)>> ELSE <<>>)
           \o Rerun(Tail(batch), Tail(rs))

\* the results of one batch, added to what each generator returned so far
RECURSIVE Record(_, _, _)
Record(hist, batch, rs) ==
    IF batch = <<>> THEN hist
    ELSE Record([hist EXCEPT ![Head(batch)] = Append(@, Head(rs))], Tail(batch), Tail(rs))

\* coroutines[i:i + max_concurrent_tasks]
GatherCoroutines ==
    SubSeq(coroutines, idx + 1, Min(idx + max_concurrent_tasks, Len(coroutines)))

\* main after its first loop, every file of svgs being a drawing that loads
InitBatch ==
    /\ \E n \in 0..MaxGenerators :
          /\ svgs = Repeat(Drawing(TRUE, <<IntAttr(2), IntAttr(2)>>,
                                   <<IntAttr(1), IntAttr(1)>>, NoCfgStr), n)
          /\ file_idx = n + 1
          /\ coroutines = [k \in 1..n |-> k]
          /\ history = [g \in 1..n |-> <<>>]
    /\ main_pc = "batch"
    /\ idx = 0
    /\ max_concurrent_tasks = MaxConcurrentTasks
    /\ gather_coroutines = <<>>
    /\ results = <<>>
    /\ IdleCfg /\ IdleHotspot /\ IdleBitmap /\ IdleGen

\* one turn of "while i < len(coroutines)"; each invocation returns any
\* Result, INKSCAPE_BUG at most MaxBugs times per generator
Batch ==
    /\ main_pc = "batch" /\ idx < Len(coroutines)
    /\ \E rs \in [1..Len(GatherCoroutines) -> Result] :
          /\ \A g \in DOMAIN history :
                Count(Record(history, GatherCoroutines, rs)[g], INKSCAPE_BUG) <= MaxBugs
          /\ gather_coroutines' = GatherCoroutines
          /\ results' = rs
          /\ max_concurrent_tasks' = success_count(rs)
          /\ idx' = idx + success_count(rs)
          /\ coroutines' = coroutines \o Rerun(GatherCoroutines, rs)
          /\ history' = Record(history, GatherCoroutines, rs)
    /\ UNCHANGED <<svgs, file_idx, main_pc, cfgVars, hsVars, bmpVars, genVars>>

\* the loop's condition fails
BatchDone ==
    /\ main_pc = "batch" /\ idx >= Len(coroutines)
    /\ main_pc' = "copy"
    /\ UNCHANGED <<svgs, file_idx, coroutines, batchVars, cfgVars, hsVars, bmpVars, genVars>>

\* "Copy other files", and main returns
CopyFiles ==
    /\ main_pc = "copy"
    /\ main_pc' = "done"
    /\ UNCHANGED <<svgs, file_idx, coroutines, batchVars, cfgVars, hsVars, bmpVars, genVars>>

NextBatch == Batch \/ BatchDone \/ CopyFiles

\* asyncio.run drives main for as long as it has a step to take
SpecBatch == InitBatch /\ [][NextBatch]_vars /\ WF_vars(NextBatch)

\* ----------------------------------------------- the hotspot, as a step --
\* What the attributes of the drawing can hold: nothing, text int() rejects,
\* or an integer of either sign, zero included.
WideSizeAttrs == {NoneAttr, TextAttr} \cup {IntAttr(n) : n \in (0 - MaxSize)..MaxSize}
WidePosAttrs == {NoneAttr, TextAttr} \cup {IntAttr(n) : n \in (0 - 1)..(MaxSize + 1)}

InitHotspot ==
    /\ size_attr \in WideSizeAttrs \X WideSizeAttrs
    /\ pos_attr \in WidePosAttrs \X WidePosAttrs
    /\ hotspot = NoHotspot
    /\ IdleCfg /\ IdleBitmap /\ IdleGen /\ IdleMain

ParseHotspot ==
    /\ hotspot.outcome = "none"
    /\ hotspot' = parse_hotspot(size_attr[1], size_attr[2], pos_attr[1], pos_attr[2])
    /\ UNCHANGED <<size_attr, pos_attr, cfgVars, bmpVars, genVars, mainVars>>

NextHotspot == ParseHotspot

SpecHotspot == InitHotspot /\ [][NextHotspot]_vars

\* =========================================================== properties --
\* Readers of the bytes written, independent of the writers above.
U16At(data, off) == data[off + 1] + 256 * data[off + 2]
U32At(data, off) ==
    data[off + 1] + 256 * data[off + 2] + 65536 * data[off + 3] + 16777216 * data[off + 4]
IdAt(data, off) == IF off + 4 <= Len(data) THEN SubSeq(data, off + 1, off + 4) ELSE <<>>
U32sAt(data, off, n) == [i \in 1..n |-> U32At(data, off + 4 * (i - 1))]

\* Offsets of the word-aligned places at which a chunk id stands.
IdOffsets(data, id) == {off \in 0..Len(data) : off % 4 = 0 /\ IdAt(data, off) = id}
FirstOffset(S) == CHOOSE off \in S : \A other \in S : off <= other

AniWritten == out.done /\ out.ok /\ is_ani
CurWritten == out.done /\ out.ok /\ ~is_ani
HasLists == ani_cfg.frame_list.present \/ ani_cfg.rate_list.present
Steps ==
    IF ani_cfg.frame_list.present THEN Len(ani_cfg.frame_list.val) ELSE ani_cfg.frame_count
AnihEnd == 12 + 8 + 36   \* RIFF id, size, ACON, then the anih chunk

\* C1: when flags bit 1 is set, the 'seq ' chunk is its id, the size 4 * cSteps
\* and, right after the size, cSteps values: frame_list, or 0..cSteps-1 when
\* there is no frame_list.
C1_SeqChunk ==
    (AniWritten /\ HasLists) =>
        /\ IdOffsets(out.data, seq) # {}
        /\ LET off == FirstOffset(IdOffsets(out.data, seq))
           IN  /\ U32At(out.data, off + 4) = 4 * Steps
               /\ off + 8 + 4 * Steps <= Len(out.data)
               /\ U32sAt(out.data, off + 8, Steps) =
                     (IF ani_cfg.frame_list.present
                      THEN ani_cfg.frame_list.val
                      ELSE [i \in 1..Steps |-> i - 1])

MaskBit(data, r, k) ==
    (data[40 + 4 * r * r + (k \div 8) + 1] \div (2 ^ (7 - (k % 8)))) % 2

C3_MaskLayout ==
    bitmap.done =>
        /\ bitmap.ok
        /\ LET n == res * res
               m == ((n + 7) \div 8) + (((n + 7) \div 8) % 2)
           IN  /\ Len(bitmap.data) = 40 + 4 * n + m
               /\ \A k \in 0..(8 * m - 1) :
                     MaskBit(bitmap.data, res, k) =
                        (IF k < n /\ ScanPixel(image, res, k)[4] = 0 THEN 1 ELSE 0)

\* C4: when flags bit 1 is set, the 'rate' chunk is 8 + 4 * frame_count bytes:
\* id, size 4 * frame_count, frame_count values (rate_list, or frame_rate
\* repeated), and the 'seq ' id comes right after them.
C4_RateChunk ==
    (AniWritten /\ HasLists) =>
        LET n == ani_cfg.frame_count
        IN  /\ IdAt(out.data, AnihEnd) = rate
            /\ U32At(out.data, AnihEnd + 4) = 4 * n
            /\ U32sAt(out.data, AnihEnd + 8, n) =
                  (IF ani_cfg.rate_list.present
                   THEN ani_cfg.rate_list.val
                   ELSE [i \in 1..n |-> ani_cfg.frame_rate])
            /\ IdAt(out.data, AnihEnd + 8 + 4 * n) = seq

\* C5: the directory entry of resolution R stores the hotspot rounded to the
\* nearest integer: no further than 1/2 from R * x and R * y.
Nearest(stored, r, frac) ==
    /\ 2 * (stored * frac.den - r * frac.num) <= frac.den
    /\ 2 * (r * frac.num - stored * frac.den) <= frac.den

C5_HotspotRounded ==
    CurWritten =>
        \A i \in 1..Len(resolutions) :
            /\ Nearest(U16At(out.data, 6 + 16 * (i - 1) + 4), resolutions[i], hotspot.x)
            /\ Nearest(U16At(out.data, 6 + 16 * (i - 1) + 6), resolutions[i], hotspot.y)

\* C6: the anih header holds cFrames = frame_count, cSteps = the step count,
\* jifRate = frame_rate and flags with bit 0 set and bit 1 set iff a list is
\* present; 'rate' and 'seq ' chunks are in the file iff bit 1 is set, and
\* with neither list LIST follows anih directly.
C6_AnihHeader ==
    AniWritten =>
        LET flags == U32At(out.data, 52)
            bit1 == (flags \div 2) % 2 = 1
        IN  /\ IdAt(out.data, 12) = anih
            /\ U32At(out.data, 16) = 36
            /\ U32At(out.data, 20) = 36
            /\ U32At(out.data, 24) = ani_cfg.frame_count
            /\ U32At(out.data, 28) = Steps
            /\ U32sAt(out.data, 32, 4) = <<0, 0, 0, 0>>
            /\ U32At(out.data, 48) = ani_cfg.frame_rate
            /\ flags % 2 = 1
            /\ flags < 4
            /\ bit1 <=> HasLists
            /\ bit1 <=> IdAt(out.data, AnihEnd) = rate
            /\ bit1 <=> IdOffsets(out.data, rate) # {}
            /\ bit1 <=> IdOffsets(out.data, seq) # {}
            /\ ~HasLists =>
                  /\ flags = 1
                  /\ U32At(out.data, 24) = U32At(out.data, 28)
                  /\ IdAt(out.data, AnihEnd) = LIST

C6_Witness ==
    /\ AniWritten
    /\ ~ani_cfg.frame_list.present /\ ani_cfg.rate_list.present
    /\ ani_cfg.frame_count > 1 /\ ani_cfg.frame_rate > 1

C8_SkipsOnlyFailedDrawing ==
    /\ main_pc # "crashed"
    /\ main_pc = "batch" =>
          /\ \A i \in 1..Len(svgs) :
                (svgs[i].svg /\ svgs[i].cfg # NoCfgStr) =>
                    parse_ani_cfg(svgs[i].cfg).outcome \in {"ok", "CursorError"}
          /\ \A i \in 1..Len(svgs) :
                NewCursor(svgs[i]) # "CursorError" => \E k \in 1..Len(coroutines) : coroutines[k] = i

\* C9: a returned AniCfg has frame_rate >= 1 (1 when frameRate is absent) and
\* no zero in rate_list, be its entries given, padded or left by truncation.
C9_NoZeroRate ==
    outcome = "ok" =>
        /\ ani_cfg.frame_rate >= 1
        /\ ~FinalCfg(cfg_str).final_cfg.frameRate.present => ani_cfg.frame_rate = 1
        /\ ani_cfg.rate_list.present =>
              \A i \in 1..Len(ani_cfg.rate_list.val) : ani_cfg.rate_list.val[i] >= 1

C9_Witness ==
    /\ outcome = "ok" /\ ani_cfg.rate_list.present
    /\ FinalCfg(cfg_str).final_cfg.frameRate.present
    /\ FinalCfg(cfg_str).final_cfg.frameRate.val = 0
    /\ \E i \in 1..Len(FinalCfg(cfg_str).final_cfg.rateList.val) :
          FinalCfg(cfg_str).final_cfg.rateList.val[i] = 0
    /\ Len(FinalCfg(cfg_str).final_cfg.rateList.val) < ani_cfg.frame_count

\* C10: the RIFF size is the file length less 8, that is 4 plus the lengths
\* of the anih, rate, 'seq ' and LIST chunks; the LIST size is 4 plus, for each
\* frame, 8 plus the length of its icon container; LIST holds frame_count
\* 'icon' sub-chunks, in frame order, each sized as its payload.
RECURSIVE IconChunks(_, _)
IconChunks(data, off) ==
    IF off >= Len(data) THEN [ok |-> off = Len(data), payloads |-> <<>>]
    ELSE IF IdAt(data, off) # icon \/ off + 8 + U32At(data, off + 4) > Len(data)
    THEN [ok |-> FALSE, payloads |-> <<>>]
    ELSE LET size == U32At(data, off + 4)
             rest == IconChunks(data, off + 8 + size)
         IN  [ok |-> rest.ok,
              payloads |-> <<SubSeq(data, off + 9, off + 8 + size)>> \o rest.payloads]

FrameIco(i) ==
    gen_ico_bytes([j \in 1..Len(resolutions) |->
                      FrameImage(png_kind, has_static, i - 1, resolutions[j])],
                  resolutions, hotspot).data

C10_ChunkSizes ==
    AniWritten =>
        /\ U32At(out.data, 4) = Len(out.data) - 8
        /\ IdOffsets(out.data, LIST) # {}
        /\ LET at == FirstOffset(IdOffsets(out.data, LIST))
               size == U32At(out.data, at + 4)
               icons == IconChunks(out.data, at + 12)
           IN  /\ U32At(out.data, 4) = 4 + 44 + (at - AnihEnd) + 8 + size
               /\ at + 8 + size = Len(out.data)
               /\ IdAt(out.data, at + 8) = fram
               /\ icons.ok
               /\ Len(icons.payloads) = ani_cfg.frame_count
               /\ \A i \in 1..Len(icons.payloads) : icons.payloads[i] = FrameIco(i)
               /\ size = 4 + SumLen([i \in 1..ani_cfg.frame_count |-> icon \o u32(0) \o FrameIco(i)])

C10_Witness ==
    /\ AniWritten
    /\ ani_cfg.frame_count > 1 /\ Len(resolutions) > 1
    /\ ani_cfg.rate_list.present /\ ~ani_cfg.frame_list.present

\* C11: for every list of N resolutions the icon container is the header
\* 0, 2, N, then N entries of 16 bytes, then the N bitmaps in the same order;
\* the first offset is 6 + 16 * N, each next offset is the previous one plus
\* the previous length, each dwBytesInRes is its bitmap's length, and the
\* last offset plus the last length is the length of the whole buffer.
EntryAt(i) == 6 + 16 * (i - 1)
BytesInRes(data, i) == U32At(data, EntryAt(i) + 8)
ImageOffset(data, i) == U32At(data, EntryAt(i) + 12)

IcoLayout(data, blobs) ==
    LET n == Len(blobs)
    IN  /\ Len(data) >= 6 + 16 * n
        /\ U16At(data, 0) = 0
        /\ U16At(data, 2) = 2
        /\ U16At(data, 4) = n
        /\ n > 0 => ImageOffset(data, 1) = 6 + 16 * n
        /\ \A i \in 1..(n - 1) :
              ImageOffset(data, i + 1) = ImageOffset(data, i) + BytesInRes(data, i)
        /\ \A i \in 1..n :
              /\ BytesInRes(data, i) = Len(blobs[i])
              /\ ImageOffset(data, i) + BytesInRes(data, i) <= Len(data)
              /\ SubSeq(data, ImageOffset(data, i) + 1,
                        ImageOffset(data, i) + BytesInRes(data, i)) = blobs[i]
        /\ n > 0 => ImageOffset(data, n) + BytesInRes(data, n) = Len(data)

CurBlobs ==
    [i \in 1..Len(resolutions) |->
        gen_bitmap(PngFrame(png_kind, 0, resolutions[i]), resolutions[i]).data]

C11_IcoLayout ==
    (outcome = "ok" /\ ~is_ani /\ out.done) =>
        out.ok /\ IcoLayout(out.data, CurBlobs)

\* The same layout, for the containers that were written.
C11_IcoLayoutWhenWritten == CurWritten => IcoLayout(out.data, CurBlobs)

\* C12: for every side R >= 1 the bitmap is 40 + 4 * R * R + M bytes, M being
\* ceil(R * R / 8) rounded up to even; biSizeImage is 4 * R * R + M, biWidth
\* is R and biHeight is 2 * R; a fully opaque image ends in M zero bytes.
MaskByteCount(r) ==
    LET ceil == (r * r + 7) \div 8
    IN  IF ceil % 2 = 0 THEN ceil ELSE ceil + 1

BlobAsClaimed(data, r, opaque) ==
    LET m == MaskByteCount(r)
    IN  /\ Len(data) = 40 + 4 * r * r + m
        /\ U32At(data, 4) = r
        /\ U32At(data, 8) = 2 * r
        /\ U32At(data, 20) = 4 * r * r + m
        /\ opaque => \A k \in 1..m : data[Len(data) - m + k] = 0

C12_BlobSize ==
    bitmap.done =>
        bitmap.ok /\ BlobAsClaimed(bitmap.data, res, image = Uniform(res, Opaque))

\* The same, for the sides whose bitmap is produced.
C12_BlobSizeWhenProduced ==
    (bitmap.done /\ bitmap.ok) =>
        BlobAsClaimed(bitmap.data, res, image = Uniform(res, Opaque))

\* C13: whenever width and height parse as integers, whatever the marker
\* position, the hotspot returned has 0 <= x <= 1 and 0 <= y <= 1 and is
\* clamp(x / width), clamp(y / height), an absent or unparseable coordinate
\* counting as 0; the only failure is the fatal one for a width or height
\* that is missing or not an integer.
\* frac is min(max(x / width, 0), 1), compared by cross-multiplication
IsClamped(frac, x, width) ==
    /\ frac.den > 0
    /\ 0 <= frac.num /\ frac.num <= frac.den
    /\ IF x * width <= 0 THEN frac.num = 0
       ELSE IF x * x >= width * width THEN frac.num = frac.den
       ELSE frac.num * width = x * frac.den

MarkerAt(attr) == IF attr.kind = "int" THEN attr.val ELSE 0
SizeIsInt == size_attr[1].kind = "int" /\ size_attr[2].kind = "int"

HotspotAsClaimed ==
    /\ hotspot.outcome = "ok"
    /\ IsClamped(hotspot.x, MarkerAt(pos_attr[1]), size_attr[1].val)
    /\ IsClamped(hotspot.y, MarkerAt(pos_attr[2]), size_attr[2].val)

C13_HotspotClamped ==
    hotspot.outcome # "none" =>
        IF SizeIsInt THEN HotspotAsClaimed ELSE hotspot.outcome = "CursorError"

\* The same, for a width and a height other than zero.
C13_HotspotClampedNonZero ==
    (hotspot.outcome # "none" /\ size_attr[1].val # 0 /\ size_attr[2].val # 0) =>
        IF SizeIsInt THEN HotspotAsClaimed ELSE hotspot.outcome = "CursorError"

\* C14: the batch loop terminates, whatever the generators return, a batch
\* with no SUCCESS included: i reaches len(coroutines) and main copies the
\* template files.
C14_Terminates == <>(main_pc = "done")

\* A turn that awaited a batch with no SUCCESS in it leaves the loop with
\* max_concurrent_tasks = 0 and i short of len(coroutines): every later batch
\* is empty and changes nothing.
Stuck == main_pc = "batch" /\ idx < Len(coroutines) /\ max_concurrent_tasks = 0

\* C15: every generator is invoked at least once, no batch awaits more than
\* 5 generators, and a generator is invoked again only after its latest
\* invocation returned INKSCAPE_BUG, never after SUCCESS or FAILED, wherever
\* the failed results stand in the batch.
LoopOver == main_pc \in {"copy", "done"} \/ Stuck
EveryoneInvoked == \A g \in DOMAIN history : history[g] # <<>>
BatchWithinLimit == Len(gather_coroutines) <= 5
RerunOnlyAfterBug ==
    \A g \in DOMAIN history :
        \A k \in 1..(Len(history[g]) - 1) : history[g][k] = INKSCAPE_BUG

C15_InvocationDiscipline ==
    /\ BatchWithinLimit
    /\ RerunOnlyAfterBug
    /\ LoopOver => EveryoneInvoked

\* The parts of it that hold: the batch limit, and every generator invoked
\* once the loop has ended.
C15_LimitAndCoverage ==
    /\ BatchWithinLimit
    /\ main_pc \in {"copy", "done"} => EveryoneInvoked

====
